---- MODULE Spec2Model ----
(***************************************************************************)
(* Model of graalpython/lib-python/3/struct.py: a module that re-exports   *)
(* the eight names of __all__ as delegates which lazily import the native  *)
(* _struct engine and forward the call by attribute name.                  *)
(*                                                                         *)
(* The shim (lines 1-26) is modelled statement by statement.  The native   *)
(* engine _struct is not part of the file; its operations are modelled     *)
(* from the written specification (sections 4 and 6) for a subset of the   *)
(* format language: the five byte-order prefixes and the type codes        *)
(* B (unsigned 8 bit), H (unsigned 16 bit) and x (pad byte).               *)
(***************************************************************************)
EXTENDS Integers, Sequences, FiniteSets, TLC

(***************************************************************************)
(* Python objects.  Every object is a record of one shape so that any two  *)
(* objects can be compared.                                                *)
(***************************************************************************)
Val(tag, num, chars, seq, rows) ==
    [tag |-> tag, num |-> num, chars |-> chars, seq |-> seq, rows |-> rows]

Str(cs) == Val("str", 0, cs, <<>>, <<>>)

Bytes(bs) == Val("bytes", 0, <<>>, bs, <<>>)

IntV(n) == Val("int", n, <<>>, <<>>, <<>>)

TupleV(xs) == Val("tuple", 0, <<>>, xs, <<>>)

RowsV(rs) == Val("iterator", 0, <<>>, <<>>, rs)

StructV(cs, size) == Val("Struct", size, cs, <<>>, <<>>)

ExcV(name) == Val("exception", 0, <<name>>, <<>>, <<>>)

NoneV == Val("None", 0, <<>>, <<>>, <<>>)

\* a keyword that the call does not pass
Absent == Val("absent", 0, <<>>, <<>>, <<>>)

\* the shim module object itself (what `import struct` yields)
ShimModule == Val("module", 0, <<"s", "t", "r", "u", "c", "t">>, <<>>, <<>>)

\* some object that happens to carry an attribute named __cstruct
Holder == Val("object", 0, <<>>, <<>>, <<>>)

(***************************************************************************)
(* Outcome of a call: a returned value or a raised exception.  origin      *)
(* tells who produced it: the shim's own code or the engine operation.     *)
(* written is the destination buffer after pack_into (empty otherwise).    *)
(***************************************************************************)
Return(origin, v) ==
    [kind |-> "return", exc |-> "", val |-> v, origin |-> origin, written |-> <<>>]

Wrote(origin, bs) ==
    [kind |-> "return", exc |-> "", val |-> NoneV, origin |-> origin, written |-> bs]

Raise(origin, e) ==
    [kind |-> "raise", exc |-> e, val |-> NoneV, origin |-> origin, written |-> <<>>]

Pending == [kind |-> "pending", exc |-> "", val |-> NoneV, origin |-> "", written |-> <<>>]

(***************************************************************************)
(* The native engine, from the written specification.                      *)
(***************************************************************************)
ByteOrderChars == {"@", "=", "<", ">", "!"}

TypeCodes == {"B", "H", "x"}

HasPrefix(cs) == Len(cs) > 0 /\ cs[1] \in ByteOrderChars

Mode(cs) == IF HasPrefix(cs) THEN cs[1] ELSE "@"

Codes(cs) == IF HasPrefix(cs) THEN Tail(cs) ELSE cs

ValidFormat(cs) == \A i \in 1..Len(Codes(cs)) : Codes(cs)[i] \in TypeCodes

FieldSize(c) == IF c = "H" THEN 2 ELSE 1

FieldAlign(mode, c) == IF mode = "@" THEN FieldSize(c) ELSE 1

FieldMax(c) == IF c = "H" THEN 65535 ELSE 255

\* native order is taken to be little-endian
BigEndian(mode) == mode \in {">", "!"}

AlignUp(off, a) == ((off + a - 1) \div a) * a

Zeros(n) == [i \in 1..n |-> 0]

Slice(s, from, n) == [i \in 1..n |-> s[from + i]]

RECURSIVE SizeFrom(_, _, _)
SizeFrom(mode, codes, off) ==
    IF codes = <<>> THEN off
    ELSE SizeFrom(mode, Tail(codes),
                  AlignUp(off, FieldAlign(mode, Head(codes))) + FieldSize(Head(codes)))

calcsize(cs) == SizeFrom(Mode(cs), Codes(cs), 0)

EncodeField(mode, c, v) ==
    IF c = "B" THEN <<v>>
    ELSE IF BigEndian(mode) THEN <<v \div 256, v % 256>>
    ELSE <<v % 256, v \div 256>>

DecodeField(mode, c, bs) ==
    IF c = "B" THEN bs[1]
    ELSE IF BigEndian(mode) THEN bs[1] * 256 + bs[2]
    ELSE bs[2] * 256 + bs[1]

RECURSIVE PackFrom(_, _, _, _)
PackFrom(mode, codes, vals, acc) ==
    IF codes = <<>> THEN acc
    ELSE LET c == Head(codes)
             padded == acc \o Zeros(AlignUp(Len(acc), FieldAlign(mode, c)) - Len(acc))
         IN  IF c = "x" THEN PackFrom(mode, Tail(codes), vals, padded \o <<0>>)
             ELSE PackFrom(mode, Tail(codes), Tail(vals),
                           padded \o EncodeField(mode, c, Head(vals)))

RECURSIVE UnpackFrom(_, _, _, _, _)
UnpackFrom(mode, codes, bs, off, acc) ==
    IF codes = <<>> THEN acc
    ELSE LET c == Head(codes)
             at == AlignUp(off, FieldAlign(mode, c))
         IN  IF c = "x" THEN UnpackFrom(mode, Tail(codes), bs, at + 1, acc)
             ELSE UnpackFrom(mode, Tail(codes), bs, at + FieldSize(c),
                             Append(acc, DecodeField(mode, c, Slice(bs, at, FieldSize(c)))))

\* the values of a field list that a pack call was given
RECURSIVE ValueFields(_)
ValueFields(codes) ==
    IF codes = <<>> THEN <<>>
    ELSE (IF Head(codes) = "x" THEN <<>> ELSE <<Head(codes)>>) \o ValueFields(Tail(codes))

Nums(vals) == [i \in 1..Len(vals) |-> vals[i].num]

IsFormat(v) == v.tag = "str"

\* 4.3: arity, then category, then range
PackBytes(cs, vals) ==
    LET fields == ValueFields(Codes(cs))
    IN  IF Len(vals) # Len(fields) THEN Raise("engine", "ArityError")
        ELSE IF \E i \in 1..Len(vals) : vals[i].tag # "int" THEN Raise("engine", "TypeError")
        ELSE IF \E i \in 1..Len(vals) : vals[i].num < 0 \/ vals[i].num > FieldMax(fields[i])
             THEN Raise("engine", "RangeError")
        ELSE Return("engine", Bytes(PackFrom(Mode(cs), Codes(cs), Nums(vals), <<>>)))

UnpackAt(cs, bs, off) == TupleV(UnpackFrom(Mode(cs), Codes(cs), Slice(bs, off, calcsize(cs)), 0, <<>>))

NoKw(kw) == \A k \in DOMAIN kw : kw[k] = Absent

\* the free functions of section 6, the compiled-format type and the error condition
EngineCall(p, args, kw) ==
    IF p = "error" THEN
        IF NoKw(kw) THEN Return("engine", ExcV("error")) ELSE Raise("engine", "TypeError")
    ELSE IF Len(args) = 0 \/ kw["self"] # Absent THEN Raise("engine", "TypeError")
    ELSE IF ~IsFormat(args[1]) THEN Raise("engine", "TypeError")
    ELSE IF ~ValidFormat(args[1].chars) THEN Raise("engine", "FormatError")
    ELSE LET cs == args[1].chars
             size == calcsize(cs)
             rest == Tail(args)
         IN
         CASE p = "calcsize" ->
                IF rest = <<>> /\ NoKw(kw) THEN Return("engine", IntV(size))
                ELSE Raise("engine", "TypeError")
           [] p = "Struct" ->
                IF rest = <<>> /\ NoKw(kw) THEN Return("engine", StructV(cs, size))
                ELSE Raise("engine", "TypeError")
           [] p = "pack" ->
                IF NoKw(kw) THEN PackBytes(cs, rest) ELSE Raise("engine", "TypeError")
           [] p = "pack_into" ->
                IF ~NoKw(kw) \/ Len(rest) < 2 THEN Raise("engine", "TypeError")
                ELSE IF rest[1].tag # "bytes" \/ rest[2].tag # "int" THEN Raise("engine", "TypeError")
                ELSE IF rest[2].num < 0 \/ Len(rest[1].seq) - rest[2].num < size
                     THEN Raise("engine", "BufferError")
                ELSE LET packed == PackBytes(cs, Tail(Tail(rest)))
                         buf == rest[1].seq
                         off == rest[2].num
                     IN  IF packed.kind = "raise" THEN packed
                         ELSE Wrote("engine",
                                    [i \in 1..Len(buf) |->
                                        IF i > off /\ i <= off + size
                                        THEN packed.val.seq[i - off] ELSE buf[i]])
           [] p = "unpack" ->
                IF ~NoKw(kw) \/ Len(rest) # 1 THEN Raise("engine", "TypeError")
                ELSE IF rest[1].tag # "bytes" THEN Raise("engine", "TypeError")
                ELSE IF Len(rest[1].seq) # size THEN Raise("engine", "BufferError")
                ELSE Return("engine", UnpackAt(cs, rest[1].seq, 0))
           [] p = "unpack_from" ->
                IF Len(rest) \notin {1, 2} \/ (Len(rest) = 2 /\ kw["offset"] # Absent)
                THEN Raise("engine", "TypeError")
                ELSE LET offv == IF Len(rest) = 2 THEN rest[2]
                                 ELSE IF kw["offset"] # Absent THEN kw["offset"]
                                 ELSE IntV(0)
                     IN  IF rest[1].tag # "bytes" \/ offv.tag # "int"
                         THEN Raise("engine", "TypeError")
                         ELSE IF offv.num < 0 \/ Len(rest[1].seq) - offv.num < size
                         THEN Raise("engine", "BufferError")
                         ELSE Return("engine", UnpackAt(cs, rest[1].seq, offv.num))
           [] p = "iter_unpack" ->
                IF ~NoKw(kw) \/ Len(rest) # 1 THEN Raise("engine", "TypeError")
                ELSE IF rest[1].tag # "bytes" THEN Raise("engine", "TypeError")
                ELSE IF size = 0 \/ Len(rest[1].seq) % size # 0 THEN Raise("engine", "BufferError")
                ELSE Return("engine",
                            RowsV([i \in 1..(Len(rest[1].seq) \div size) |->
                                      UnpackAt(cs, rest[1].seq, (i - 1) * size).seq]))

(***************************************************************************)
(* Bounds of the inputs.                                                   *)
(***************************************************************************)
\* the longest buffer a call passes
MaxBufLen == 4

\* the largest offset a call passes
MaxOffset == 1

(***************************************************************************)
(* The shim: struct.py lines 1-26.                                         *)
(***************************************************************************)
__all__ == <<"calcsize", "pack", "pack_into", "unpack", "unpack_from",
             "iter_unpack", "Struct", "error">>

AllNames == {__all__[i] : i \in 1..Len(__all__)}

\* the two values the module global __cstruct takes: None, or the module _struct
None == "None"

Engine == "_struct"

\* the value of the attribute __cstruct of a Holder object
Other == "other"

Threads == {"main", "worker"}

KwNames == {"self", "offset"}

VARIABLES
    cstruct,    \* the module global __cstruct (line 14)
    globals,    \* the module's bindings of the names of __all__ (line 26)
    loadi,      \* how many entries of __all__ the export loop has bound (line 25)
    pc,         \* per thread: where it is in a delegate call
    call,       \* per thread: the call in progress
    out,        \* per thread: what the call returned or raised
    trace,      \* per thread: the attribute lookups and engine invocations of the call
    imports,    \* how many times line 20 has been executed
    called,     \* whether any exported name has been called yet
    live        \* the threads that make calls

vars == <<cstruct, globals, loadi, pc, call, out, trace, imports, called, live>>

Unbound == [kind |-> "unbound", name |-> "", p |-> ""]

\* the delegate reading the loop variable of line 25 when it is called, not its
\* own p: after the loop that variable is the last entry of __all__
make_delegate_LateBinding(p) == [kind |-> "function", name |-> p, p |-> __all__[Len(__all__)]]

\* lines 16-23: a function whose closure holds p and whose __name__ is p
make_delegate(p) == [kind |-> "function", name |-> p, p |-> p]

\* what the engine binds to a name: the compiled-format type, the error
\* condition, or a builtin function
EngineAttr(n) ==
    [kind |-> IF n = "Struct" THEN "type"
              ELSE IF n = "error" THEN "exception class" ELSE "builtin",
     name |-> n, p |-> n]

NoArgs == [k \in KwNames |-> Absent]

\* line 17: binding a call's arguments to (self, *args, **kwargs)
Bind(args, kw) ==
    IF Len(args) > 0 /\ kw["self"] # Absent
      THEN [ok |-> FALSE, self |-> NoneV, args |-> <<>>, kwargs |-> NoArgs]
    ELSE IF Len(args) = 0 /\ kw["self"] = Absent
      THEN [ok |-> FALSE, self |-> NoneV, args |-> <<>>, kwargs |-> NoArgs]
    ELSE [ok |-> TRUE,
          self |-> IF Len(args) > 0 THEN args[1] ELSE kw["self"],
          args |-> IF Len(args) > 0 THEN Tail(args) ELSE <<>>,
          kwargs |-> [kw EXCEPT !["self"] = Absent]]

\* the test of line 19 written the wrong way round: `if __cstruct:`
Falsy_Inverted(h) == h # None

\* the test of line 19 dropped: the import runs in every call
Falsy_Always(h) == TRUE

\* line 19: `not __cstruct`
Falsy(h) == h = None

\* line 20: what `import _struct as __cstruct` binds the global to
ImportStruct(h) == Engine

\* line 21, self.__cstruct: the shim module has the global of line 14, a Holder
\* has its own attribute, any other object has none
SelfCstruct(self, h) ==
    IF self.tag = "module" THEN [found |-> TRUE, obj |-> h]
    ELSE IF self.tag = "object" THEN [found |-> TRUE, obj |-> Other]
    ELSE [found |-> FALSE, obj |-> None]

NoTrace == [lookups |-> <<>>, invoked |-> <<>>]

\* line 21 as a whole: self.__cstruct, getattr(..., p), the call, the return
Line21(p, self, args, kwargs, h) ==
    LET target == SelfCstruct(self, h)
    IN  IF ~target.found
          THEN [out |-> Raise("shim", "AttributeError"), trace |-> NoTrace]
        ELSE IF target.obj # Engine
          THEN [out |-> Raise("shim", "AttributeError"),
                trace |-> [lookups |-> <<[obj |-> target.obj, attr |-> p]>>,
                           invoked |-> <<>>]]
        ELSE [out |-> EngineCall(p, args, kwargs),
              trace |-> [lookups |-> <<[obj |-> target.obj, attr |-> p]>>,
                         invoked |-> <<[name |-> p, args |-> args, kw |-> kwargs]>>]]

NoCall == [name |-> "", p |-> "", args |-> <<>>, kw |-> NoArgs, bound |-> FALSE,
           self |-> NoneV, rest |-> <<>>, kwargs |-> NoArgs, entry |-> None]

(***************************************************************************)
(* The calls the threads make.                                             *)
(***************************************************************************)
LittleB == Str(<<"<", "B">>)

BigH == Str(<<">", "H">>)

NativeBH == Str(<<"@", "B", "H">>)

UnknownCode == Str(<<"<", "Q">>)

Formats == {LittleB, BigH, NativeBH, UnknownCode}

Buffers == {Bytes([i \in 1..n |-> i]) : n \in 0..MaxBufLen}

Offsets == {IntV(n) : n \in 0..MaxOffset}

Ints == Offsets \cup {IntV(258)}

Rests ==
    {<<>>} \cup {<<x>> : x \in Ints \cup Buffers}
           \cup {<<b, o>> : b \in Buffers, o \in Offsets}
           \cup {<<IntV(1), IntV(258)>>, <<IntV(258), IntV(1)>>}
           \cup {<<b, o, IntV(1)>> : b \in Buffers, o \in Offsets}

PlainArgs == {<<f>> \o r : f \in Formats, r \in Rests}

ArgLists ==
    {<<>>} \cup PlainArgs \cup {<<ShimModule>> \o a : a \in PlainArgs}
           \cup {<<Holder, f>> : f \in Formats}

KwChoices ==
    {NoArgs, [NoArgs EXCEPT !["offset"] = IntV(1)], [NoArgs EXCEPT !["self"] = ShimModule]}

\* with several threads the interleaving is under study, not the arguments
ConcArgLists == {<<>>, <<BigH, IntV(258)>>, <<ShimModule, BigH, IntV(258)>>}

ArgChoices == IF Cardinality(live) = 1 THEN ArgLists ELSE ConcArgLists

KwChoicesNow == IF Cardinality(live) = 1 THEN KwChoices ELSE {NoArgs}

(***************************************************************************)
(* Initial state: line 14 has run, the export loop has not started.        *)
(***************************************************************************)
InitShared ==
    /\ cstruct = None
    /\ globals = [n \in AllNames |-> Unbound]
    /\ loadi = 0
    /\ pc = [t \in Threads |-> "idle"]
    /\ call = [t \in Threads |-> NoCall]
    /\ out = [t \in Threads |-> Pending]
    /\ trace = [t \in Threads |-> NoTrace]
    /\ imports = 0
    /\ called = FALSE

Init == InitShared /\ live = {"main"}

InitConc == InitShared /\ live = Threads

\* lines 25-26: one iteration of the export loop
LoadStep ==
    /\ loadi < Len(__all__)
    /\ globals' = [globals EXCEPT ![__all__[loadi + 1]] = make_delegate(__all__[loadi + 1])]
    /\ loadi' = loadi + 1
    /\ UNCHANGED <<cstruct, pc, call, out, trace, imports, called, live>>

Loaded == loadi = Len(__all__)

\* line 17: thread t calls the exported name n
Call(t, n, args, kw) ==
    /\ Loaded
    /\ pc[t] = "idle"
    /\ LET b == Bind(args, kw)
       IN  /\ call' = [call EXCEPT ![t] =
                        [name |-> n, p |-> globals[n].p, args |-> args, kw |-> kw,
                         bound |-> b.ok, self |-> b.self, rest |-> b.args,
                         kwargs |-> b.kwargs, entry |-> cstruct]]
           /\ pc' = [pc EXCEPT ![t] = IF b.ok THEN "check" ELSE "done"]
           /\ out' = [out EXCEPT ![t] = IF b.ok THEN Pending ELSE Raise("shim", "TypeError")]
    /\ called' = TRUE
    /\ UNCHANGED <<cstruct, globals, loadi, trace, imports, live>>

\* line 19: the test of the global
Check(t) ==
    /\ pc[t] = "check"
    /\ pc' = [pc EXCEPT ![t] = IF Falsy(cstruct) THEN "import" ELSE "forward"]
    /\ UNCHANGED <<cstruct, globals, loadi, call, out, trace, imports, called, live>>

\* line 20: import _struct as __cstruct
Import(t) ==
    /\ pc[t] = "import"
    /\ cstruct' = ImportStruct(cstruct)
    /\ imports' = imports + 1
    /\ pc' = [pc EXCEPT ![t] = "forward"]
    /\ UNCHANGED <<globals, loadi, call, out, trace, called, live>>

\* line 21: return getattr(self.__cstruct, p)(*args, **kwargs)
Forward(t) ==
    /\ pc[t] = "forward"
    /\ LET r == Line21(call[t].p, call[t].self, call[t].rest, call[t].kwargs, cstruct)
       IN  /\ out' = [out EXCEPT ![t] = r.out]
           /\ trace' = [trace EXCEPT ![t] = r.trace]
    /\ pc' = [pc EXCEPT ![t] = "done"]
    /\ UNCHANGED <<cstruct, globals, loadi, call, imports, called, live>>

\* the caller has the outcome and is free to call again
Finish(t) ==
    /\ pc[t] = "done"
    /\ pc' = [pc EXCEPT ![t] = "idle"]
    /\ call' = [call EXCEPT ![t] = NoCall]
    /\ out' = [out EXCEPT ![t] = Pending]
    /\ trace' = [trace EXCEPT ![t] = NoTrace]
    /\ UNCHANGED <<cstruct, globals, loadi, imports, called, live>>

Next ==
    \/ LoadStep
    \/ \E t \in {u \in live : pc[u] = "idle"} :
          \E n \in AllNames, args \in ArgChoices, kw \in KwChoicesNow : Call(t, n, args, kw)
    \/ \E t \in live : Check(t)
    \/ \E t \in live : Import(t)
    \/ \E t \in live : Forward(t)
    \/ \E t \in live : Finish(t)

Spec == Init /\ [][Next]_vars

SpecConc == InitConc /\ [][Next]_vars

(***************************************************************************)
(* Properties.                                                             *)
(***************************************************************************)
Done(t) == pc[t] = "done"

\* what a caller gets from the exported name n once the handle is h
DelegateCall(n, args, kw, h) ==
    LET b == Bind(args, kw)
    IN  IF ~b.ok THEN Raise("shim", "TypeError")
        ELSE Line21(globals[n].p, b.self, b.args, b.kwargs, h).out

\* the call of t is n(f, ...) with a well-formed format string and no keywords
PlainCall(t, n) ==
    /\ Done(t)
    /\ call[t].name = n
    /\ call[t].kw = NoArgs
    /\ Len(call[t].args) >= 1
    /\ IsFormat(call[t].args[1])
    /\ ValidFormat(call[t].args[1].chars)

\* C1: every call n(a1..ak, **kw) of an exported name invokes the engine's n
\* exactly once with exactly a1..ak and kw, and the caller gets what the
\* engine returned.
C1_ArgumentTransparency ==
    \A t \in Threads :
        Done(t) =>
            /\ trace[t].invoked =
                   <<[name |-> call[t].name, args |-> call[t].args, kw |-> call[t].kw]>>
            /\ out[t] = EngineCall(call[t].name, call[t].args, call[t].kw)

\* C2: while the module loads and until an exported name is called the handle
\* is None and nothing is imported; the handle is set exactly when line 20 has
\* run, which happens only inside a delegate's body; and whenever a call is at
\* the lookup of line 21, or has been through it, the handle is set.
C2_LazyInit ==
    /\ (~Loaded \/ ~called) => (cstruct = None /\ imports = 0)
    /\ (cstruct = None) <=> (imports = 0)
    /\ \A t \in Threads :
          /\ pc[t] = "import" => call[t].bound
          /\ pc[t] = "forward" => cstruct # None
          /\ (Done(t) /\ call[t].bound) => cstruct # None

\* a first call has imported the engine and stands at the lookup of line 21
C2_Witness ==
    \E t \in Threads :
        pc[t] = "forward" /\ call[t].entry = None /\ imports = 1 /\ cstruct = Engine

\* C3: after the load, Struct is the engine's compiled-format type and error
\* is the engine's error condition: Struct(format) gives what the engine's
\* Struct gives, and an error the engine raises is caught by `except error`.
C3_StructAndError ==
    Loaded =>
        /\ globals["Struct"] = EngineAttr("Struct")
        /\ globals["error"] = EngineAttr("error")
        /\ \A t \in Threads :
              /\ (Done(t) /\ call[t].name = "Struct") =>
                     out[t] = EngineCall("Struct", call[t].args, call[t].kw)
              /\ (Done(t) /\ out[t].kind = "raise" /\ out[t].origin = "engine") =>
                     globals["error"].kind = "exception class"

\* C4: for a valid format f and values of its shape, pack(f, *values) returns
\* and unpack(f, that result) returns the values.
C4_RoundTrip ==
    \A t \in Threads :
        (/\ PlainCall(t, "pack")
         /\ PackBytes(call[t].args[1].chars, Tail(call[t].args)).kind = "return")
        => /\ out[t].kind = "return"
           /\ DelegateCall("unpack", <<call[t].args[1], out[t].val>>, NoArgs, cstruct)
                  = Return("engine", TupleV(Nums(Tail(call[t].args))))

\* C5: unpack(f, buffer) raises BufferError unless the buffer has exactly
\* calcsize(f) bytes; unpack_from(f, buffer, offset) raises BufferError when
\* fewer than calcsize(f) bytes remain and otherwise returns the decoding of
\* the calcsize(f) bytes at offset.
C5_BufferLength ==
    \A t \in Threads :
        /\ (/\ PlainCall(t, "unpack")
            /\ Len(call[t].args) = 2
            /\ call[t].args[2].tag = "bytes"
            /\ Len(call[t].args[2].seq) # calcsize(call[t].args[1].chars))
           => (out[t].kind = "raise" /\ out[t].exc = "BufferError")
        /\ (/\ PlainCall(t, "unpack_from")
            /\ Len(call[t].args) = 3
            /\ call[t].args[2].tag = "bytes"
            /\ call[t].args[3].tag = "int")
           => LET cs == call[t].args[1].chars
                  buf == call[t].args[2].seq
                  off == call[t].args[3].num
              IN  IF Len(buf) - off < calcsize(cs)
                  THEN out[t].kind = "raise" /\ out[t].exc = "BufferError"
                  ELSE out[t].kind = "return" /\ out[t].val = UnpackAt(cs, buf, off)

\* C6: iter_unpack(f, buffer) raises BufferError, yielding nothing, unless
\* len(buffer) is a multiple of calcsize(f); otherwise it yields
\* len(buffer)/calcsize(f) elements, the i-th being unpack(f, i-th chunk),
\* starting at the first chunk in every call.
C6_IterUnpack ==
    \A t \in Threads :
        (/\ PlainCall(t, "iter_unpack")
         /\ Len(call[t].args) = 2
         /\ call[t].args[2].tag = "bytes")
        => LET f == call[t].args[1]
               size == calcsize(f.chars)
               buf == call[t].args[2].seq
           IN  IF Len(buf) % size # 0
               THEN out[t].kind = "raise" /\ out[t].exc = "BufferError" /\ out[t].val.rows = <<>>
               ELSE /\ out[t].kind = "return"
                    /\ Len(out[t].val.rows) = Len(buf) \div size
                    /\ \A i \in 1..Len(out[t].val.rows) :
                          DelegateCall("unpack", <<f, Bytes(Slice(buf, (i - 1) * size, size))>>,
                                       NoArgs, cstruct)
                              = Return("engine", TupleV(out[t].val.rows[i]))

\* C7: with threads making their first calls concurrently, line 20 runs at
\* most once in the whole run and no thread is at the lookup of line 21 with
\* the handle unset.
C7_OneTimeInit ==
    /\ imports <= 1
    /\ \A t \in Threads : pc[t] = "forward" => cstruct # None

\* C8: a call invokes the engine operation at most once; when the engine
\* would fail, it is invoked exactly once and the caller gets that error; when
\* the engine would accept the call, the shim raises no error of its own; and a
\* finished call, failed or not, leaves the handle set.
C8_ErrorPropagation ==
    \A t \in Threads :
        Done(t) =>
            LET e == EngineCall(call[t].name, call[t].args, call[t].kw)
            IN  /\ Len(trace[t].invoked) <= 1
                /\ e.kind = "raise" => (Len(trace[t].invoked) = 1 /\ out[t] = e)
                /\ e.kind = "return" => ~(out[t].kind = "raise" /\ out[t].origin = "shim")
                /\ cstruct = Engine

\* C9: the export loop binds each name of __all__ to a delegate of its own
\* whose __name__ is that name, and every attribute lookup and every engine
\* invocation made by a call of the name n asks for the attribute named n.
C9_NameRouting ==
    /\ \A i \in 1..loadi :
          globals[__all__[i]].kind = "function" /\ globals[__all__[i]].name = __all__[i]
    /\ \A m, n \in AllNames : (Loaded /\ m # n) => globals[m] # globals[n]
    /\ \A t \in Threads :
          /\ \A i \in 1..Len(trace[t].lookups) : trace[t].lookups[i].attr = call[t].name
          /\ \A i \in 1..Len(trace[t].invoked) : trace[t].invoked[i].name = call[t].name

\* a call of pack, which is not the last name of the loop, has looked up pack
\* on the engine and invoked it
C9_Witness ==
    \E t \in Threads :
        /\ Done(t)
        /\ call[t].name = "pack"
        /\ trace[t].lookups = <<[obj |-> Engine, attr |-> "pack"]>>
        /\ Len(trace[t].invoked) = 1

====
